---- MODULE Spec2Model ----
(***************************************************************************)
(* FlightScheduleGen.generate() of src/src/flight_schedule_gen.py: the     *)
(* time-expanded wheelchair demand graph built over an airport graph.      *)
(*                                                                         *)
(* Times are whole hours, distances are whole multiples of PACE, so that   *)
(* dist / PACE is exact.  A node is a pair <<side, i>> standing for the    *)
(* name f'in_{i}' / f'out_{i}'; 's' and 't' are <<"s", 0>> and <<"t", 0>>. *)
(* The DiGraph self.G is kept the way networkx keeps it: the nodes in      *)
(* insertion order, and per node the successors in insertion order.        *)
(***************************************************************************)
EXTENDS Integers, Sequences, FiniteSets, TLC

\* ---- bounds of the model ------------------------------------------------
MaxFlights == 2         \* n_flights_in, n_flights_out range over 0..MaxFlights
MaxExternal == 1        \* geometric(p_geom_external) ranges over 1..MaxExternal
MaxDemand == 1          \* geometric(p_geom_connect) - 1 is in 0..MaxDemand
TimeSamples == 2        \* uniform(0, 24) is sampled at TimeSamples instants
MaxWaitSteps == 1       \* exponential(mean) ranges over 0..MaxWaitSteps steps
WaitStep == 12          \* hours per step of the exponential sample

\* ---- program constants --------------------------------------------------
PACE == 54              \* PACE = 54.4804182335, taken to whole units
DAY == 24               \* the 24 of uniform(0, 24) and of `t_departure >= 24`

\* ---- the airport graph G_airport handed to __init__ ---------------------
AirportNodes == {"WH", "A", "B"}

\* _load_gate_graph gives every gate a self loop of weight 0; _connect_gates
\* adds the weighted edges.  WH - A - B in a line, 2 h and 4 h of escort.
AirportWeight(a, b) ==
    IF a = b THEN 0
    ELSE IF {a, b} = {"WH", "A"} THEN 2 * PACE
    ELSE IF {a, b} = {"A", "B"} THEN 4 * PACE
    ELSE -1

Min2(x, y) == IF x <= y THEN x ELSE y

Max2(x, y) == IF x >= y THEN x ELSE y

\* one relaxation round of all pairs through every intermediate node
Relax(d) ==
    [p \in AirportNodes \X AirportNodes |->
        LET via == { d[<<p[1], k>>] + d[<<k, p[2]>>] :
                       k \in { k \in AirportNodes :
                                 d[<<p[1], k>>] >= 0 /\ d[<<k, p[2]>>] >= 0 } }
            all == via \cup (IF d[p] >= 0 THEN {d[p]} ELSE {})
        IN  IF all = {} THEN -1
            ELSE CHOOSE m \in all : \A x \in all : m <= x]

RECURSIVE RelaxN(_, _)
RelaxN(d, n) == IF n = 0 THEN d ELSE RelaxN(Relax(d), n - 1)

\* the shortest path lengths between all pairs of the airport graph
AllPairs ==
    RelaxN([p \in AirportNodes \X AirportNodes |-> AirportWeight(p[1], p[2])],
           Cardinality(AirportNodes))

\* gates = list(set(self.G_airport) - set(['WH']))
Gates == AirportNodes \ {"WH"}

\* the instants uniform(0, 24) is sampled at: evenly spaced, the last whole
\* hour of the day among them, all in [0, 24)
Times ==
    { DAY - 1 - k * (DAY \div TimeSamples) : k \in 0..(TimeSamples - 1) }

\* the values exponential(mean_connecting_wait_time) is sampled at: all >= 0
Waits == { k * WaitStep : k \in 0..MaxWaitSteps }

VARIABLES
    G_airport,        \* self.G_airport, as the path lengths it answers with
    pc,               \* position in generate(); "ValueError" = raised
    n_flights_in, n_flights_out,
    n_external_in, n_external_out,
    total_demand,
    in_nodes, out_nodes,
    G_nodes,          \* nodes of self.G, in insertion order
    loc, t,           \* node attributes 'loc' and 't'
    succ,             \* successors of each node, in insertion order
    capacity, weight, t_escort,   \* edge attributes, where the edge has them
    idx,              \* position of the loop of _adjust_flight_times
    flight_times,     \* the times _generate_nodes sampled
    X,                \* the exponential sample of each processed edge
    t_departure_new,  \* the candidate computed for each processed edge
    deltas            \* the shift applied at each processed edge (0: none)

vars == <<G_airport, pc, n_flights_in, n_flights_out, n_external_in,
          n_external_out, total_demand, in_nodes, out_nodes, G_nodes, loc, t,
          succ, capacity, weight, t_escort, idx, flight_times, X,
          t_departure_new, deltas>>

\* nx.shortest_path_length(self.G_airport, a, b, weight='weight')
shortest_path_length(a, b) == G_airport[<<a, b>>]

\* t_escort = dist / PACE
EscortTime(a, b) == shortest_path_length(a, b) \div PACE

EmptyFn == [x \in {} |-> 0]

Range(s) == { s[i] : i \in 1..Len(s) }

S == <<"s", 0>>

T == <<"t", 0>>

\* ---- networkx.DiGraph ----------------------------------------------------
RECURSIVE EdgesFrom(_, _)
\* G.edges: for every node in insertion order, its successors in order
EdgesFrom(nodes, sc) ==
    IF nodes = <<>> THEN <<>>
    ELSE [k \in 1..Len(sc[Head(nodes)]) |-> <<Head(nodes), sc[Head(nodes)][k]>>]
         \o EdgesFrom(Tail(nodes), sc)

GEdges == EdgesFrom(G_nodes, succ)

\* G.add_edge(u, v): a new successor goes last, a known one keeps its place
AddEdge(sc, u, v) ==
    IF v \in Range(sc[u]) THEN sc ELSE [sc EXCEPT ![u] = Append(@, v)]

RECURSIVE AddEdges(_, _)
AddEdges(sc, es) ==
    IF es = <<>> THEN sc
    ELSE AddEdges(AddEdge(sc, Head(es)[1], Head(es)[2]), Tail(es))

\* ---- the properties in_flight_nodes ... out_external_nodes ---------------
in_flight_nodes == SubSeq(in_nodes, 1, Min2(n_flights_in, Len(in_nodes)))

in_external_nodes == SubSeq(in_nodes, n_flights_in + 1, Len(in_nodes))

out_flight_nodes == SubSeq(out_nodes, 1, Min2(n_flights_out, Len(out_nodes)))

out_external_nodes == SubSeq(out_nodes, n_flights_out + 1, Len(out_nodes))

Init ==
    /\ G_airport = AllPairs
    /\ pc = "generate"
    /\ n_flights_in \in 0..MaxFlights
    /\ n_flights_out \in 0..MaxFlights
    /\ n_external_in = 0
    /\ n_external_out = 0
    /\ total_demand = 0
    /\ in_nodes = <<>>
    /\ out_nodes = <<>>
    /\ G_nodes = <<>>
    /\ loc = EmptyFn
    /\ t = EmptyFn
    /\ succ = EmptyFn
    /\ capacity = EmptyFn
    /\ weight = EmptyFn
    /\ t_escort = EmptyFn
    /\ idx = 1
    /\ flight_times = EmptyFn
    /\ X = <<>>
    /\ t_departure_new = <<>>
    /\ deltas = <<>>

\* ExternalDemand, forgetting the outbound externals
ExternalDemandInOnly(n_in, n_out) == n_in

\* self.total_demand += n_external_in + n_external_out
ExternalDemand(n_in, n_out) == n_in + n_out

\* generate(), up to the first call of _generate_nodes
Generate ==
    /\ pc = "generate"
    /\ \E n_in \in 1..MaxExternal, n_out \in 1..MaxExternal :
         /\ n_external_in' = n_in
         /\ n_external_out' = n_out
         /\ total_demand' = 0 + ExternalDemand(n_in, n_out)
    /\ pc' = "generate_nodes_in"
    /\ UNCHANGED <<G_airport, n_flights_in, n_flights_out, in_nodes,
                   out_nodes, G_nodes,
                   loc, t, succ, capacity, weight, t_escort, idx,
                   flight_times, X, t_departure_new, deltas>>

\* _generate_nodes(n_external, incoming)
GenerateNodes(incoming) ==
    /\ pc = IF incoming THEN "generate_nodes_in" ELSE "generate_nodes_out"
    /\ LET n_flights == IF incoming THEN n_flights_in ELSE n_flights_out
           n_external == IF incoming THEN n_external_in ELSE n_external_out
           node_names == [i \in 1..(n_flights + n_external) |->
                            <<IF incoming THEN "in" ELSE "out", i>>]
       IN  \E gates \in [1..n_flights -> Gates],
              times \in [1..(n_flights + n_external) -> Times] :
             LET locations == gates \o [i \in 1..n_external |-> "WH"]
                 new == Range(node_names)
             IN  /\ loc' = [n \in new |-> locations[n[2]]] @@ loc
                 /\ t' = [n \in new |-> times[n[2]]] @@ t
                 /\ flight_times' = [n \in new |-> times[n[2]]] @@ flight_times
                 /\ succ' = [n \in new |-> <<>>] @@ succ
                 /\ G_nodes' = G_nodes \o node_names
                 /\ IF incoming
                    THEN in_nodes' = node_names /\ UNCHANGED out_nodes
                    ELSE out_nodes' = node_names /\ UNCHANGED in_nodes
    /\ pc' = IF incoming THEN "generate_nodes_out" ELSE "assign_forward"
    /\ UNCHANGED <<G_airport, n_flights_in, n_flights_out, n_external_in,
                   n_external_out,
                   total_demand, capacity, weight, t_escort, idx, X,
                   t_departure_new, deltas>>

\* ExternalEdges, ignoring the `forward` flag: always (external, flight)
ExternalEdgesOneWay(forward, external_nodes, flight_nodes, choice) ==
    [k \in 1..Len(external_nodes) |->
        <<external_nodes[k], flight_nodes[choice[k]]>>]

\* edge = (external, flight) if forward else (flight, external), one per
\* external node, the flight being flight_nodes[choice[k]]
ExternalEdges(forward, external_nodes, flight_nodes, choice) ==
    [k \in 1..Len(external_nodes) |->
        IF forward THEN <<external_nodes[k], flight_nodes[choice[k]]>>
        ELSE <<flight_nodes[choice[k]], external_nodes[k]>>]

\* _assign_external_nodes(forward)
AssignExternalNodes(forward) ==
    /\ pc = IF forward THEN "assign_forward" ELSE "assign_backward"
    /\ LET external_nodes == IF forward THEN in_external_nodes
                             ELSE out_external_nodes
           flight_nodes == IF forward THEN out_flight_nodes
                           ELSE in_flight_nodes
       IN  IF external_nodes # <<>> /\ flight_nodes = <<>>
           THEN \* np.random.choice([]) raises ValueError
                /\ pc' = "ValueError"
                /\ UNCHANGED <<succ, capacity, weight, t_escort>>
           ELSE /\ \E choice \in [1..Len(external_nodes) ->
                                     1..Len(flight_nodes)] :
                     LET es == ExternalEdges(forward, external_nodes,
                                             flight_nodes, choice)
                         gate(e) == loc[IF forward THEN e[2] ELSE e[1]]
                     IN  /\ succ' = AddEdges(succ, es)
                         /\ capacity' = [e \in Range(es) |-> 1] @@ capacity
                         /\ weight' = [e \in Range(es) |-> -1] @@ weight
                         /\ t_escort' =
                              [e \in Range(es) |-> EscortTime("WH", gate(e))]
                              @@ t_escort
                /\ pc' = IF forward THEN "assign_backward"
                         ELSE "forward_connections"
    /\ UNCHANGED <<G_airport, n_flights_in, n_flights_out, n_external_in,
                   n_external_out,
                   total_demand, in_nodes, out_nodes, G_nodes, loc, t, idx,
                   flight_times, X, t_departure_new, deltas>>

RECURSIVE product(_, _)
\* itertools.product(a, b): the pairs, the first component varying slowest
product(a, b) ==
    IF a = <<>> THEN <<>>
    ELSE [k \in 1..Len(b) |-> <<Head(a), b[k]>>] \o product(Tail(a), b)

RECURSIVE SumOver(_, _)
SumOver(f, D) ==
    IF D = {} THEN 0
    ELSE LET d == CHOOSE d \in D : TRUE IN f[d] + SumOver(f, D \ {d})

\* ConnectionEdges, without the `in_gate == out_gate` test
ConnectionEdgesAnyGate(pairs, gate, demand) ==
    LET Kept(p) == demand[p] # 0
    IN  SelectSeq(pairs, Kept)

\* the pairs of the loop of _generate_forward_connections that reach add_edge
ConnectionEdges(pairs, gate, demand) ==
    LET Kept(p) == gate[p[1]] # gate[p[2]] /\ demand[p] # 0
    IN  SelectSeq(pairs, Kept)

\* _generate_forward_connections()
GenerateForwardConnections ==
    /\ pc = "forward_connections"
    /\ LET pairs == product(in_flight_nodes, out_flight_nodes)
       IN  \E wheelchair_demand \in [Range(pairs) -> 0..MaxDemand] :
             LET es == ConnectionEdges(pairs, loc, wheelchair_demand)
             IN  /\ total_demand' =
                      total_demand + SumOver(wheelchair_demand, Range(es))
                 /\ succ' = AddEdges(succ, es)
                 /\ capacity' =
                      [e \in Range(es) |-> wheelchair_demand[e]] @@ capacity
                 /\ weight' = [e \in Range(es) |-> -1] @@ weight
                 /\ t_escort' =
                      [e \in Range(es) |-> EscortTime(loc[e[1]], loc[e[2]])]
                      @@ t_escort
                 /\ pc' = IF EdgesFrom(G_nodes, AddEdges(succ, es)) = <<>>
                          THEN "backward_connections" ELSE "adjust"
    /\ idx' = 1
    /\ UNCHANGED <<G_airport, n_flights_in, n_flights_out, n_external_in,
                   n_external_out,
                   in_nodes, out_nodes, G_nodes, loc, t, flight_times, X,
                   t_departure_new, deltas>>

\* AdjustEdge, shifting the departure only
AdjustEdgeDepartureOnly(times, in_node, out_node, escort, x) ==
    LET t_arrival == times[in_node]
        t_dep_new == t_arrival + escort + x
        t_departure == Max2(times[out_node], t_dep_new)
        delta == t_departure - DAY
    IN  IF t_departure >= DAY
        THEN [times EXCEPT ![out_node] = t_departure - delta]
        ELSE [times EXCEPT ![out_node] = t_departure]

\* AdjustEdge, overwriting the departure instead of taking the max
AdjustEdgeNoMax(times, in_node, out_node, escort, x) ==
    LET t_arrival == times[in_node]
        t_departure == t_arrival + escort + x
        delta == t_departure - DAY
    IN  IF t_departure >= DAY
        THEN [times EXCEPT ![in_node] = t_arrival - delta,
                           ![out_node] = t_departure - delta]
        ELSE [times EXCEPT ![in_node] = t_arrival,
                           ![out_node] = t_departure]

\* the body of the loop of _adjust_flight_times for one edge: the times
\* after it, given the times before it and the exponential sample x
AdjustEdge(times, in_node, out_node, escort, x) ==
    LET t_arrival == times[in_node]
        t_dep_new == t_arrival + escort + x
        t_departure == Max2(times[out_node], t_dep_new)
        delta == t_departure - DAY
    IN  IF t_departure >= DAY
        THEN [times EXCEPT ![in_node] = t_arrival - delta,
                           ![out_node] = t_departure - delta]
        ELSE [times EXCEPT ![in_node] = t_arrival,
                           ![out_node] = t_departure]

\* one iteration of the loop of _adjust_flight_times()
AdjustFlightTimes ==
    /\ pc = "adjust"
    /\ idx <= Len(GEdges)
    /\ LET e == GEdges[idx]
       IN  \E x \in Waits :
             /\ t' = AdjustEdge(t, e[1], e[2], t_escort[e], x)
             /\ X' = Append(X, x)
             /\ t_departure_new' =
                  Append(t_departure_new, t[e[1]] + t_escort[e] + x)
             /\ deltas' =
                  Append(deltas,
                         Max2(0, Max2(t[e[2]], t[e[1]] + t_escort[e] + x)
                                 - DAY))
    /\ idx' = idx + 1
    /\ pc' = IF idx = Len(GEdges) THEN "backward_connections" ELSE "adjust"
    /\ UNCHANGED <<G_airport, n_flights_in, n_flights_out, n_external_in,
                   n_external_out,
                   total_demand, in_nodes, out_nodes, G_nodes, loc, succ,
                   capacity, weight, t_escort, flight_times>>

\* Reusable, with arrival and departure swapped in the comparison
ReusableSwapped(times, in_node, out_node) ==
    times[out_node] > times[in_node] + EscortTime(loc[out_node], loc[in_node])

\* Reusable, on the times as sampled instead of the times handed in
ReusablePreAdjust(times, in_node, out_node) ==
    flight_times[in_node]
      > flight_times[out_node] + EscortTime(loc[out_node], loc[in_node])

\* if t_arrival > t_departure + t_escort
Reusable(times, in_node, out_node) ==
    times[in_node] > times[out_node] + EscortTime(loc[out_node], loc[in_node])

\* _generate_backward_connections()
GenerateBackwardConnections ==
    /\ pc = "backward_connections"
    /\ LET Kept(p) == Reusable(t, p[1], p[2])
           kept == SelectSeq(product(in_nodes, out_nodes), Kept)
           es == [k \in 1..Len(kept) |-> <<kept[k][2], kept[k][1]>>]
       IN  /\ succ' = AddEdges(succ, es)
           /\ weight' = [e \in Range(es) |-> -1] @@ weight
    /\ pc' = "add_s_and_t"
    /\ UNCHANGED <<G_airport, n_flights_in, n_flights_out, n_external_in,
                   n_external_out,
                   total_demand, in_nodes, out_nodes, G_nodes, loc, t,
                   capacity, t_escort, idx, flight_times, X, t_departure_new,
                   deltas>>

\* SAndTEdges, without the closing edge 't' -> 's'
SAndTEdgesOpen(ins, outs) ==
    [k \in 1..Len(ins) |-> <<S, ins[k]>>]
    \o [k \in 1..Len(outs) |-> <<outs[k], T>>]

\* the edges _add_s_and_t adds, in the order it adds them
SAndTEdges(ins, outs) ==
    [k \in 1..Len(ins) |-> <<S, ins[k]>>]
    \o [k \in 1..Len(outs) |-> <<outs[k], T>>]
    \o << <<T, S>> >>

\* _add_s_and_t(), and the return of generate()
AddSAndT ==
    /\ pc = "add_s_and_t"
    /\ LET es == SAndTEdges(in_nodes, out_nodes)
       IN  /\ G_nodes' = G_nodes \o <<S, T>>
           /\ succ' = AddEdges([n \in {S, T} |-> <<>>] @@ succ, es)
           /\ weight' = [e \in Range(es) |-> 0] @@ weight
    /\ pc' = "returned"
    /\ UNCHANGED <<G_airport, n_flights_in, n_flights_out, n_external_in,
                   n_external_out,
                   total_demand, in_nodes, out_nodes, loc, t, capacity,
                   t_escort, idx, flight_times, X, t_departure_new, deltas>>

Next ==
    \/ Generate
    \/ GenerateNodes(TRUE)
    \/ GenerateNodes(FALSE)
    \/ AssignExternalNodes(TRUE)
    \/ AssignExternalNodes(FALSE)
    \/ GenerateForwardConnections
    \/ AdjustFlightTimes
    \/ GenerateBackwardConnections
    \/ AddSAndT

Spec == Init /\ [][Next]_vars

\* ==== the claims ==========================================================
InNodes == Range(in_nodes)

OutNodes == Range(out_nodes)

InFlights == Range(in_flight_nodes)

OutFlights == Range(out_flight_nodes)

InExternals == Range(in_external_nodes)

OutExternals == Range(out_external_nodes)

\* the pass of _adjust_flight_times is over
PassDone == pc \in {"backward_connections", "add_s_and_t", "returned"}

\* both calls of _assign_external_nodes have returned
Assigned ==
    pc \in {"forward_connections", "adjust", "backward_connections",
            "add_s_and_t", "returned"}

\* the edges the pass has processed so far, in its order: the forward edges
\* lead G.edges, since the inbound nodes were inserted first
Processed == SubSeq(EdgesFrom(in_nodes, succ), 1, Len(X))

SetMax(A) == CHOOSE m \in A : \A x \in A : m >= x

\* C1: after generate() returns, every inbound and outbound node has a time
\* t with 0 <= t < 24.
C1_TimeDomain ==
    pc = "returned" =>
        \A n \in InNodes \cup OutNodes : 0 <= t[n] /\ t[n] < DAY

\* C2: once the adjustment pass has processed all edges, every edge
\* (in, out) that carries an escort time, Connection Edge or External Edge,
\* satisfies time(out) >= time(in) + t_escort(in, out).
C2_Feasible ==
    PassDone =>
        \A e \in DOMAIN t_escort : t[e[2]] >= t[e[1]] + t_escort[e]

\* a Connection Edge whose outbound node is shared with another edge and
\* whose inbound node was shifted backward by an edge processed after it
C2_Witness ==
    /\ pc = "returned"
    /\ LET P == Processed
       IN  \E j, k \in 1..Len(X) :
             /\ j < k
             /\ P[j][1] \in InFlights /\ P[j][2] \in OutFlights
             /\ P[k][1] = P[j][1]
             /\ deltas[k] > 0
             /\ \E m \in 1..Len(X) : m # j /\ P[m][2] = P[j][2]

\* C3: in the returned graph an edge (out_node, in_node) exists if and only
\* if time(in_node) > time(out_node) + t_escort(loc(out_node), loc(in_node)),
\* on the final times, for every pair of an inbound and an outbound node.
C3_ReuseIff ==
    pc \in {"add_s_and_t", "returned"} =>
        \A i \in InNodes, o \in OutNodes :
            (i \in Range(succ[o]))
              <=> (t[i] > t[o] + (G_airport[<<loc[o], loc[i]>>] \div PACE))

\* a returned graph with a Reuse Edge into an external node from an outbound
\* node whose time the pass changed, and a pair without a Reuse Edge
C3_Witness ==
    /\ pc = "returned"
    /\ \E i \in InExternals, o \in OutNodes :
         i \in Range(succ[o]) /\ t[o] # flight_times[o]
    /\ \E i \in InNodes, o \in OutNodes : i \notin Range(succ[o])

\* C4: in the returned graph every inbound node has exactly one edge from
\* 's', every outbound node exactly one edge to 't', exactly one edge
\* 't' -> 's' exists, and 's' and 't' have no other incident edge.
C4_Wiring ==
    pc = "returned" =>
        LET E == GEdges
        IN  /\ { e \in Range(E) : e[1] \in {S, T} \/ e[2] \in {S, T} }
                 = { <<S, i>> : i \in InNodes }
                   \cup { <<o, T>> : o \in OutNodes } \cup { <<T, S>> }
            /\ Cardinality(Range(E)) = Len(E)

\* a returned graph with flights and externals on both sides
C4_Witness ==
    /\ pc = "returned"
    /\ Cardinality(InNodes) >= 3
    /\ Cardinality(OutNodes) >= 3
    /\ S \in Range(succ[T])

\* C5: after both calls of _assign_external_nodes every inbound external
\* node has exactly one External Edge, to an outbound flight node, every
\* outbound external node exactly one, from an inbound flight node, and each
\* has capacity 1.
C5_ExternalEdges ==
    Assigned =>
        /\ \A x \in InExternals :
             \E f \in OutFlights :
               /\ Range(succ[x]) \cap OutNodes = {f}
               /\ <<x, f>> \in DOMAIN capacity
               /\ capacity[<<x, f>>] = 1
        /\ \A y \in OutExternals :
             \E f \in InFlights :
               /\ { i \in InNodes : y \in Range(succ[i]) } = {f}
               /\ <<f, y>> \in DOMAIN capacity
               /\ capacity[<<f, y>>] = 1

\* a returned graph where the externals had two flights to choose from and
\* the inbound external shares its flight with a Connection Edge
C5_Witness ==
    /\ pc = "returned"
    /\ Cardinality(InFlights) = 2
    /\ Cardinality(OutFlights) = 2
    /\ \E x \in InExternals, i \in InFlights, f \in OutFlights :
         f \in Range(succ[x]) /\ f \in Range(succ[i])

\* C6: every Connection Edge between an inbound and an outbound flight has
\* a capacity of at least 1, and none joins two flights of the same location.
C6_Demand ==
    \A i \in InFlights, o \in OutFlights :
        o \in Range(succ[i]) =>
            /\ <<i, o>> \in DOMAIN capacity
            /\ capacity[<<i, o>>] >= 1
            /\ loc[i] # loc[o]

\* a returned graph with a Connection Edge, and with two flights at the same
\* gate, which have none
C6_Witness ==
    /\ pc = "returned"
    /\ \E i \in InFlights, o \in OutFlights : o \in Range(succ[i])
    /\ \E i \in InFlights, o \in OutFlights :
         loc[i] = loc[o] /\ o \notin Range(succ[i])

ConnectionEdgeSet ==
    { e \in InFlights \X OutFlights : e[2] \in Range(succ[e[1]]) }

\* C7: when generate() returns, total_demand is the number of external
\* nodes plus the demand of all Connection Edges, which is the sum of the
\* capacity over all edges that carry one.
C7_TotalDemand ==
    pc = "returned" =>
        /\ total_demand
             = Cardinality(InExternals) + Cardinality(OutExternals)
               + SumOver(capacity, ConnectionEdgeSet)
        /\ total_demand = SumOver(capacity, DOMAIN capacity)

\* a returned graph with several Connection Edges
C7_Witness ==
    /\ pc = "returned"
    /\ Cardinality(ConnectionEdgeSet) >= 2
    /\ Cardinality(OutExternals) >= 1

\* C8: when an external node must be assigned a flight and the flight list
\* of the opposite side is empty, generate() does not reach the random
\* choice over the empty list (no ValueError), and no graph is returned.
C8_Guarded ==
    /\ pc # "ValueError"
    /\ ((n_flights_out = 0 /\ n_external_in >= 1)
          \/ (n_flights_in = 0 /\ n_external_out >= 1)) => ~Assigned

RECURSIVE AdjustPass(_, _, _, _)
\* the whole pass run on `edges` in the order `order` (indices into
\* `edges`), every edge with the exponential sample it had
AdjustPass(times, edges, order, k) ==
    IF k > Len(order) THEN times
    ELSE LET e == edges[order[k]]
         IN  AdjustPass(AdjustEdge(times, e[1], e[2], t_escort[e], X[order[k]]),
                        edges, order, k + 1)

\* C9: the result of the adjustment pass does not depend on the order in
\* which the edges are processed: every permutation of the order gives the
\* same final time for every node.
C9_OrderIndependent ==
    pc = "backward_connections" =>
        LET P == Processed
        IN  \A order \in Permutations(1..Len(X)) :
                AdjustPass(flight_times, P, order, 1) = t

\* the candidates computed for the edges into outbound node o, P being the
\* processed edges
Candidates(P, o) ==
    { t_departure_new[k] : k \in { k \in 1..Len(X) : P[k][2] = o } }

\* C10: an outbound node whose pre-adjustment time and candidates are all
\* below 24 ends the pass at exactly their maximum; without incoming edge it
\* keeps its pre-adjustment time.
C10_MaxFold ==
    PassDone =>
        LET P == Processed
        IN  \A o \in OutNodes :
                LET m == SetMax({flight_times[o]} \cup Candidates(P, o))
                IN  m < DAY => t[o] = m

\* an outbound node with several incoming edges, raised by the pass to a
\* candidate that is not the one of its last edge, and one without any edge
C10_Witness ==
    /\ PassDone
    /\ LET P == Processed
       IN  /\ \E o \in OutNodes :
                 LET K == { k \in 1..Len(X) : P[k][2] = o }
                     m == SetMax({flight_times[o]} \cup Candidates(P, o))
                 IN  /\ Cardinality(K) >= 2
                     /\ m < DAY
                     /\ t[o] > flight_times[o]
                     /\ t_departure_new[SetMax(K)] < m
           /\ \E o \in OutNodes : Candidates(P, o) = {}

\* C11: within one adjustment pass the backward shift (delta > 0) is applied
\* to any given inbound node at most once, whatever the number of its edges
\* whose departure reaches 24.
C11_ShiftOnce ==
    LET P == Processed
    IN  \A i \in InNodes :
            Cardinality({ k \in 1..Len(deltas) :
                            P[k][1] = i /\ deltas[k] > 0 }) <= 1

\* C12: no inbound node i and outbound node o have both a forward edge
\* i -> o (Connection or External Edge) and a Reuse Edge o -> i.
C12_NoTwoCycle ==
    \A i \in InNodes, o \in OutNodes :
        ~(o \in Range(succ[i]) /\ i \in Range(succ[o]))

\* a returned graph with a forward edge i -> o whose inbound node was shifted
\* by the pass and whose two ends both take part in Reuse Edges with others
C12_Witness ==
    /\ pc = "returned"
    /\ \E i \in InNodes, o \in OutNodes :
         /\ o \in Range(succ[i])
         /\ t[i] < flight_times[i]
         /\ \E o2 \in OutNodes : i \in Range(succ[o2])
         /\ \E i2 \in InNodes : i2 \in Range(succ[o])

====
